---------------------------- MODULE Spec2Model ----------------------------
(***************************************************************************)
(* A model of src/src/statement.js: the Statement / SubStatement wrappers  *)
(* of an xAPI statement and the path initialiser _getobj.                  *)
(*                                                                         *)
(* JavaScript objects live in a heap: a sequence of records, an object's   *)
(* reference being its index (0 is null / undefined).  An object has       *)
(*   cls        its class ("Object" for a plain object or a string literal *)
(*              with no fields, "Array", or a class name)                  *)
(*   objectType its own objectType property ("" when it has none)          *)
(*   props      its own reference-valued properties (key -> reference)     *)
(*   id         its own id property (0 when it has none; generated ids are *)
(*              positive, ids written by a caller are negative)            *)
(*   extra      its other own scalar properties (name -> value)            *)
(*   items      the elements of an array                                   *)
(*   data       what its other data is (the mbox, the IRI, ...: a number   *)
(*              that tells one caller's literal from another)              *)
(*   ok         whether that data is well formed for the variant classes   *)
(*              (read only by the variants' own isValid, which is not part *)
(*              of statement.js)                                           *)
(***************************************************************************)
EXTENDS Integers, Sequences, FiniteSets, TLC

\* heap   the objects
\* uuid   how many identifiers Util.ruuid() has generated
\* last   the caller's last constructor call or assignment (see Op)
\* calls  the uses of _getobj so far, in order (see Call)
VARIABLES heap, uuid, last, calls

vars == <<heap, uuid, last, calls>>

\* ---------------------------------------------------------------- bounds
\* constructor calls and assignments a caller makes in a run of Spec
MaxOps == 3

\* uses of _getobj in a run of SpecCtx
MaxCalls == 3

\* ------------------------------------------------------------ the heap
NoProps == [k \in {} |-> 0]

Restricted == {"stored", "version", "authority"}

Tags == {"", "Agent", "Group", "Activity", "StatementRef", "SubStatement", "Other"}

NewObject(K) ==
  [cls |-> K, objectType |-> "", props |-> NoProps, id |-> 0,
   extra |-> NoProps, items |-> <<>>, data |-> 0, ok |-> FALSE]

\* a caller's literal: a string, or a plain object carrying an objectType
Literal(tag, ok, data) ==
  [NewObject("Object") EXCEPT !.objectType = tag, !.ok = ok, !.data = data]

\* obj[key] for a reference-valued key; 0 (undefined) when absent
Get(h, a, key) == IF key \in DOMAIN h[a].props THEN h[a].props[key] ELSE 0

Set(h, a, key, v) == [h EXCEPT ![a].props = (key :> v) @@ @]

\* Object.assign(target, source): every own property of source, shallow
ObjectAssign(target, source) ==
  [target EXCEPT !.objectType = source.objectType,
                 !.props = source.props @@ @,
                 !.id = source.id,
                 !.extra = source.extra @@ @,
                 !.items = source.items,
                 !.data = source.data]

InstanceOf(h, a, K) ==
  h[a].cls = K \/ (K = "Statement" /\ h[a].cls = "SubStatement")

\* ------------------------------------- the variant classes (not in src/)
\* new Agent(x), new Group(x), new Verb(x), new Activity(x), new StatementRef(x):
\* a new instance of the class, tagged with its objectType, whose data is x's
Variant(K, source) ==
  [NewObject(K) EXCEPT !.objectType = IF K = "Verb" THEN "" ELSE K,
                       !.data = source.data,
                       !.ok = source.ok]

\* the isValid() of a variant instance
VariantIsValid(h, a) == IF h[a].ok THEN "T" ELSE "F"

\* Util.ruuid(): the n-th identifier generated
ruuid(n) == n

\* ------------------------------------------------------ the constructors
\* IsStatementArg testing actor.actor alone
IsStatementArgActorOnly(h, actor) == actor # 0 /\ Get(h, actor, "actor") # 0

\* line 82: is the first argument a whole statement?
IsStatementArg(h, actor) ==
  /\ actor # 0
  /\ Get(h, actor, "actor") # 0
  /\ Get(h, actor, "verb") # 0
  /\ Get(h, actor, "object") # 0

\* ActorVariant without the instanceof tests: an Agent is wrapped again
ActorVariantRewraps(h, actor) ==
  IF actor = 0 THEN ""
  ELSE IF h[actor].objectType = "Agent" \/ h[actor].objectType = "" THEN "Agent"
  ELSE IF h[actor].objectType = "Group" THEN "Group"
  ELSE ""

\* lines 90-95: the class the actor is converted to ("" : stored as it is)
ActorVariant(h, actor) ==
  IF actor = 0 THEN ""
  ELSE IF (h[actor].objectType = "Agent" \/ h[actor].objectType = "")
          /\ ~InstanceOf(h, actor, "Agent") THEN "Agent"
  ELSE IF h[actor].objectType = "Group" /\ ~InstanceOf(h, actor, "Group") THEN "Group"
  ELSE ""

\* lines 98-100
VerbVariant(h, verb) ==
  IF verb # 0 /\ ~InstanceOf(h, verb, "Verb") THEN "Verb" ELSE ""

\* ObjectVariant without lines 109-111: an object tagged "Agent" is stored raw
ObjectVariantNoAgent(h, object) ==
  IF object = 0 THEN ""
  ELSE IF (h[object].objectType = "Activity" \/ h[object].objectType = "")
          /\ ~InstanceOf(h, object, "Activity") THEN "Activity"
  ELSE IF h[object].objectType = "Group" /\ ~InstanceOf(h, object, "Group") THEN "Group"
  ELSE IF h[object].objectType = "StatementRef"
          /\ ~InstanceOf(h, object, "StatementRef") THEN "StatementRef"
  ELSE IF h[object].objectType = "SubStatement"
          /\ ~InstanceOf(h, object, "SubStatement") THEN "SubStatement"
  ELSE ""

\* lines 104-121: the class the object is converted to
ObjectVariant(h, object) ==
  IF object = 0 THEN ""
  ELSE IF (h[object].objectType = "Activity" \/ h[object].objectType = "")
          /\ ~InstanceOf(h, object, "Activity") THEN "Activity"
  ELSE IF h[object].objectType = "Agent" /\ ~InstanceOf(h, object, "Agent") THEN "Agent"
  ELSE IF h[object].objectType = "Group" /\ ~InstanceOf(h, object, "Group") THEN "Group"
  ELSE IF h[object].objectType = "StatementRef"
          /\ ~InstanceOf(h, object, "StatementRef") THEN "StatementRef"
  ELSE IF h[object].objectType = "SubStatement"
          /\ ~InstanceOf(h, object, "SubStatement") THEN "SubStatement"
  ELSE ""

\* new K(x) for a variant class: the heap with the instance, and its reference
Convert(h, K, x) ==
  IF K = "" THEN [heap |-> h, this |-> x]
  ELSE [heap |-> Append(h, Variant(K, h[x])), this |-> Len(h) + 1]

\* the constructor without line 123: the id copied from the source stays
AssignIdSkipped(obj, n) == obj

\* line 123
AssignId(obj, n) == [obj EXCEPT !.id = ruuid(n)]

\* DeleteRestricted without line 173: version is left on the instance
DeleteRestrictedKeepsVersion(obj) ==
  [obj EXCEPT !.objectType = "SubStatement",
              !.id = 0,
              !.extra = [k \in DOMAIN @ \ {"stored", "authority"} |-> @[k]]]

\* lines 168-174
DeleteRestricted(obj) ==
  [obj EXCEPT !.objectType = "SubStatement",
              !.id = 0,
              !.extra = [k \in DOMAIN @ \ Restricted |-> @[k]]]

RECURSIVE StatementConstructor(_, _, _, _, _, _)
RECURSIVE SubStatementConstructor(_, _, _, _, _)

\* lines 80-124, run for a new instance of class K with n identifiers generated
\* so far: [heap, uuid, this]
StatementConstructor(h, n, K, actor0, verb0, object0) ==
  LET whole  == IsStatementArg(h, actor0)
      this0  == IF whole THEN ObjectAssign(NewObject(K), h[actor0]) ELSE NewObject(K)
      verb   == IF whole THEN Get(h, actor0, "verb") ELSE verb0
      object == IF whole THEN Get(h, actor0, "object") ELSE object0
      actor  == IF whole THEN Get(h, actor0, "actor") ELSE actor0
      ra     == Convert(h, ActorVariant(h, actor), actor)
      rv     == Convert(ra.heap, VerbVariant(ra.heap, verb), verb)
      ro     == IF ObjectVariant(rv.heap, object) = "SubStatement"
                THEN SubStatementConstructor(rv.heap, n, object, 0, 0)
                ELSE [heap |-> Convert(rv.heap, ObjectVariant(rv.heap, object), object).heap,
                      uuid |-> n,
                      this |-> Convert(rv.heap, ObjectVariant(rv.heap, object), object).this]
      this1  == [this0 EXCEPT !.props = ("actor" :> ra.this @@ "verb" :> rv.this
                                           @@ "object" :> ro.this) @@ @]
  IN [heap |-> Append(ro.heap, AssignId(this1, ro.uuid + 1)),
      uuid |-> ro.uuid + 1,
      this |-> Len(ro.heap) + 1]

\* lines 166-175
SubStatementConstructor(h, n, actor, verb, object) ==
  LET r == StatementConstructor(h, n, "SubStatement", actor, verb, object)
  IN [r EXCEPT !.heap[r.this] = DeleteRestricted(@)]

\* ------------------------------------------------------------- isValid
\* the outcome of a call: "T" true, "F" a falsy value, "X" an exception thrown
RECURSIVE isValid(_, _)
RECURSIVE StatementIsValid(_, _)
RECURSIVE SubStatementIsValid(_, _)

\* x && y for outcomes, y evaluated only when x is true
AndThen(x, y) == IF x = "T" THEN y ELSE x

\* this.slot && this.slot.isValid()
SlotIsValid(h, a, slot) ==
  IF Get(h, a, slot) = 0 THEN "F" ELSE isValid(h, Get(h, a, slot))

\* lines 130-134
StatementIsValid(h, a) ==
  AndThen(SlotIsValid(h, a, "actor"),
          AndThen(SlotIsValid(h, a, "verb"), SlotIsValid(h, a, "object")))

Bool(b) == IF b THEN "T" ELSE "F"

\* line 183: none of the four restricted fields is an own property
NoRestrictedOwn(obj) == obj.id = 0 /\ DOMAIN obj.extra \cap Restricted = {}

\* SubStatementIsValid without the test of the nested object's objectType
SubStatementIsValidAllowsNesting(h, a) ==
  IF StatementIsValid(h, a) # "T" THEN StatementIsValid(h, a)
  ELSE Bool(h[a].objectType = "SubStatement" /\ NoRestrictedOwn(h[a]))

\* lines 180-184
SubStatementIsValid(h, a) ==
  IF StatementIsValid(h, a) # "T" THEN StatementIsValid(h, a)
  ELSE Bool(/\ h[a].objectType = "SubStatement"
            /\ h[Get(h, a, "object")].objectType # h[a].objectType
            /\ NoRestrictedOwn(h[a]))

\* x.isValid(): the method of x's class; a plain object has none, and calling it
\* throws a TypeError
isValid(h, a) ==
  IF h[a].cls = "Statement" THEN StatementIsValid(h, a)
  ELSE IF h[a].cls = "SubStatement" THEN SubStatementIsValid(h, a)
  ELSE IF h[a].cls \in {"Agent", "Group", "Verb", "Activity", "StatementRef"}
       THEN VariantIsValid(h, a)
  ELSE "X"

\* ------------------------------------------------------------- _getobj
ParentPath == <<"context", "contextActivities", "parent[]">>

GroupingPath == <<"context", "contextActivities", "grouping[]">>

OtherPath == <<"context", "contextActivities", "other[]">>

\* line 24: /\[\]$/.test(part)
ListMarker(part) == part \in {"parent[]", "grouping[]", "other[]"}

\* line 25: part.slice(0,-2)
Slice2(part) ==
  CASE part = "parent[]" -> "parent"
    [] part = "grouping[]" -> "grouping"
    [] part = "other[]" -> "other"
    [] OTHER -> part

RECURSIVE _getobj(_, _, _)

\* lines 17-36, path already split at the dots: [heap, ret]
_getobj(h, obj, path) ==
  LET part    == Head(path)
      rest    == Tail(path)
      missing == Get(h, obj, part) = 0
      key     == IF missing /\ ListMarker(part) THEN Slice2(part) ELSE part
      h1      == IF ~missing THEN h
                 ELSE Set(Append(h, NewObject(IF ListMarker(part) THEN "Array" ELSE "Object")),
                          obj, key, Len(h) + 1)
  IN IF rest = <<>> THEN [heap |-> h1, ret |-> Get(h1, obj, key)]
     ELSE _getobj(h1, Get(h1, obj, key), rest)

\* array.push(x)
Push(h, array, x) == [h EXCEPT ![array].items = Append(@, x)]

\* lines 144-154: _getobj(this, path).push(new Activity(activity))
AddActivity(h, this, path, activity) ==
  LET r == _getobj(h, this, path)
      c == [heap |-> Append(r.heap, Variant("Activity", h[activity])), this |-> Len(r.heap) + 1]
  IN [heap |-> Push(c.heap, r.ret, c.this), ret |-> r.ret]

\* ------------------------------------------------- the caller's operations
Statements(h) == {a \in 1..Len(h) : h[a].cls \in {"Statement", "SubStatement"}}

\* the caller's last operation, the n-th: what it was, on or giving which object,
\* with which arguments
Op(op, this, args) == [op |-> op, this |-> this, args |-> args, n |-> last.n + 1]

Constructed == last.op \in {"Statement", "SubStatement"}

\* a raw statement as a caller writes it or a store returns it: a plain object
\* with actor, verb and object, and with the fields of decoration d
Decorations == 0..2

RawStatement(actor, verb, object, d) ==
  [NewObject("Object") EXCEPT
     !.props = [k \in {s \in {"actor", "verb", "object", "context"} :
                         (s = "actor" /\ actor # 0) \/ (s = "verb" /\ verb # 0)
                         \/ (s = "object" /\ object # 0) \/ (s = "context" /\ d = 1)} |->
                  CASE k = "actor" -> actor [] k = "verb" -> verb [] k = "object" -> object
                    [] k = "context" -> 4],
     !.objectType = IF d = 2 THEN "SubStatement" ELSE "",
     !.data = 3,
     !.id = IF d = 0 THEN 0 ELSE 0 - d,
     !.extra = CASE d = 0 -> NoProps
                 [] d = 1 -> "stored" :> 1 @@ "timestamp" :> 1
                 [] d = 2 -> "version" :> 1 @@ "authority" :> 1 @@ "result" :> 1]

\* the argument lists a caller passes.  Reference 1 is a literal of any
\* objectType, 2 a well-formed string, 3 a raw statement (4 is the context of a
\* raw statement that has one).  The first statement
\* is built from these; later ones from the statement built or assigned to
\* last, and its parts.
Arguments ==
  IF last.this = 0
  THEN {<<1, 2, 1>>, <<0, 2, 1>>, <<1, 0, 1>>, <<1, 2, 0>>, <<0, 0, 0>>, <<2, 1, 2>>,
        <<3, 0, 0>>, <<3, 1, 2>>, <<2, 2, 3>>}
  ELSE {<<1, 2, 1>>, <<last.this, 0, 0>>, <<last.this, 1, 2>>, <<2, 2, last.this>>,
        <<Get(heap, last.this, "actor"), Get(heap, last.this, "verb"),
          Get(heap, last.this, "object")>>}

\* new Statement(actor, verb, object)
NewStatement(actor, verb, object) ==
  LET r == StatementConstructor(heap, uuid, "Statement", actor, verb, object)
  IN /\ last.n < MaxOps
     /\ heap' = r.heap
     /\ uuid' = r.uuid
     /\ last' = Op("Statement", r.this, <<actor, verb, object>>)
     /\ UNCHANGED calls

\* new SubStatement(actor, verb, object)
NewSubStatement(actor, verb, object) ==
  LET r == SubStatementConstructor(heap, uuid, actor, verb, object)
  IN /\ last.n < MaxOps
     /\ heap' = r.heap
     /\ uuid' = r.uuid
     /\ last' = Op("SubStatement", r.this, <<actor, verb, object>>)
     /\ UNCHANGED calls

\* what a caller assigns to a slot: null, a literal, or a part of the statement
AssignedValues ==
  {0, 1} \cup (IF Constructed
               THEN {Get(heap, last.this, "actor"), Get(heap, last.this, "object")}
               ELSE {})

\* stmt.actor = v, stmt.verb = v, stmt.object = v, on the statement just built
Assign(slot, v) ==
  /\ Constructed
  /\ last.n < MaxOps
  /\ heap' = Set(heap, last.this, slot, v)
  /\ heap' # heap
  /\ last' = Op("assign", last.this, <<v>>)
  /\ UNCHANGED <<uuid, calls>>

\* sub.id = ..., sub.stored = ..., sub.version = ..., sub.authority = ...
AssignRestricted(field) ==
  /\ last.op = "SubStatement"
  /\ last.n < MaxOps
  /\ heap' = IF field = "id" THEN [heap EXCEPT ![last.this].id = -1]
             ELSE [heap EXCEPT ![last.this].extra = (field :> 1) @@ @]
  /\ last' = Op("assignRestricted", last.this, <<field>>)
  /\ UNCHANGED <<uuid, calls>>

Init ==
  /\ \E t \in Tags, ok \in BOOLEAN, d \in Decorations, missing \in 0..3 :
        /\ \/ d = 0 /\ missing = 0 /\ (ok \/ t = "")
           \/ t = "" /\ ok /\ (d = 1 \/ missing = 0)
        /\ heap = <<Literal(t, ok, 1), Literal("", TRUE, 2),
                    RawStatement(IF missing = 1 THEN 0 ELSE 1, IF missing = 2 THEN 0 ELSE 2,
                                 IF missing = 3 THEN 0 ELSE 1, d),
                    NewObject("Object")>>
  /\ uuid = 0
  /\ last = [op |-> "init", this |-> 0, args |-> <<>>, n |-> 0]
  /\ calls = <<>>

Next ==
  \/ \E args \in Arguments : NewStatement(args[1], args[2], args[3])
  \/ \E args \in Arguments : NewSubStatement(args[1], args[2], args[3])
  \/ \E k \in {"actor", "verb", "object"}, v \in AssignedValues : Assign(k, v)
  \/ \E f \in {"id"} \cup Restricted : AssignRestricted(f)

Spec == Init /\ [][Next]_vars

\* ------------------------------------------- the context helpers and _getobj
\* one use of _getobj: by which operation, on which root, with which path, the
\* value passed on to push (0: nothing pushed), and the reference returned
Call(op, root, path, arg, ret) ==
  [op |-> op, root |-> root, path |-> path, arg |-> arg, ret |-> ret]

AddActivityCall(op, path, activity) ==
  LET r == AddActivity(heap, last.this, path, activity)
  IN /\ Len(calls) < MaxCalls
     /\ heap' = r.heap
     /\ calls' = Append(calls, Call(op, last.this, path, activity, r.ret))
     /\ UNCHANGED <<uuid, last>>

\* lines 144-146
addParentActivity(activity) == AddActivityCall("addParentActivity", ParentPath, activity)

\* lines 148-150
addGroupingActivity(activity) == AddActivityCall("addGroupingActivity", GroupingPath, activity)

\* lines 152-154
addOtherContextActivity(activity) ==
  AddActivityCall("addOtherContextActivity", OtherPath, activity)

\* lines 140-142
generateRegistration ==
  LET r == _getobj(heap, last.this, <<"context">>)
  IN /\ Len(calls) < MaxCalls
     /\ heap' = [r.heap EXCEPT ![r.ret].extra = ("registration" :> ruuid(uuid + 1)) @@ @]
     /\ uuid' = uuid + 1
     /\ calls' = Append(calls, Call("generateRegistration", last.this, <<"context">>, 0, r.ret))
     /\ UNCHANGED last

\* a caller's own _getobj(root, path), and a push of x onto what it returns
EnsurePath(root, path, x) ==
  LET r == _getobj(heap, root, path)
  IN /\ Len(calls) < MaxCalls
     /\ heap' = IF x = 0 THEN r.heap ELSE Push(r.heap, r.ret, x)
     /\ calls' = Append(calls, Call("_getobj", root, path, x, r.ret))
     /\ UNCHANGED <<uuid, last>>

\* reference 1 is an activity as an object, 2 an activity id, 3 an empty root;
\* then a fresh Statement or SubStatement
InitCtx ==
  /\ \E K \in {"Statement", "SubStatement"} :
       LET pool == <<Literal("Activity", FALSE, 1), Literal("", TRUE, 2), NewObject("Object")>>
           r    == IF K = "Statement" THEN StatementConstructor(pool, 0, K, 2, 2, 2)
                   ELSE SubStatementConstructor(pool, 0, 2, 2, 2)
       IN /\ heap = r.heap
          /\ uuid = r.uuid
          /\ last = [op |-> K, this |-> r.this, args |-> <<2, 2, 2>>, n |-> 1]
  /\ calls = <<>>

NextCtx ==
  \/ \E x \in {1, 2} : addParentActivity(x)
  \/ \E x \in {1, 2} : addGroupingActivity(x)
  \/ \E x \in {1, 2} : addOtherContextActivity(x)
  \/ generateRegistration
  \/ \E path \in {ParentPath, GroupingPath, OtherPath}, x \in {0, 1} : EnsurePath(3, path, x)

SpecCtx == InitCtx /\ [][NextCtx]_vars

\* =================================================================== claims
\* root.context.contextActivities.<list>, 0 when a step of the path is missing
ListOf(h, root, list) ==
  LET c  == Get(h, root, "context")
      ca == IF c = 0 THEN 0 ELSE Get(h, c, "contextActivities")
  IN IF ca = 0 THEN 0 ELSE Get(h, ca, list)

ListPaths == {ParentPath, GroupingPath, OtherPath}

\* the calls of the log made on root with path
CallsOn(root, path) == SelectSeq(calls, LAMBDA c : c.root = root /\ c.path = path)

\* C1: after n >= 1 calls of addParentActivity (addGroupingActivity,
\* addOtherContextActivity) on a fresh Statement, the list parent (grouping,
\* other) of context.contextActivities holds exactly n Activity entries, the
\* i-th built from the argument of the i-th call.
C1_AppendOnly ==
  \A path \in ListPaths :
    LET cs   == SelectSeq(CallsOn(last.this, path), LAMBDA c : c.op # "_getobj")
        list == ListOf(heap, last.this, Slice2(path[3]))
    IN cs # <<>> =>
         /\ list # 0
         /\ Len(heap[list].items) = Len(cs)
         /\ \A i \in 1..Len(cs) :
              i <= Len(heap[list].items) =>
                /\ heap[heap[list].items[i]].cls = "Activity"
                /\ heap[heap[list].items[i]].data = heap[cs[i].arg].data

\* C2: _getobj(root, "context.contextActivities.parent[]") on an empty root
\* creates root.context.contextActivities.parent, stored under the key without
\* the list marker, and returns it; every later call with the same root and
\* path returns the same reference, which holds everything pushed onto it.
C2_SameReference ==
  \A path \in ListPaths :
    LET cs == CallsOn(3, path)
    IN cs # <<>> =>
         /\ ListOf(heap, 3, Slice2(path[3])) = cs[Len(cs)].ret
         /\ path[3] \notin DOMAIN heap[Get(heap, Get(heap, 3, "context"), "contextActivities")].props
         /\ heap[cs[1].ret].cls = "Array"
         /\ \A i \in 1..Len(cs) : cs[i].ret = cs[1].ret
         /\ Len(heap[cs[1].ret].items) = Cardinality({i \in 1..Len(cs) : cs[i].arg # 0})

SubStatements(h) == {a \in 1..Len(h) : h[a].cls = "SubStatement"}

\* C3: immediately after new SubStatement(...) returns, called by the caller or
\* by the Statement constructor for an object tagged "SubStatement", the new
\* instance has none of id, stored, version, authority as own properties and
\* its objectType is "SubStatement", whatever the input carried.
C3_Stripped ==
  [][\A a \in SubStatements(heap') :
       a > Len(heap) =>
         /\ heap'[a].id = 0
         /\ DOMAIN heap'[a].extra \cap {"stored", "version", "authority"} = {}
         /\ heap'[a].objectType = "SubStatement"]_vars

\* a SubStatement just built by the Statement constructor from the raw statement
\* 3, which is tagged "SubStatement" and carries id, version and authority
C3_Witness ==
  /\ last.op = "Statement" /\ last.args = <<2, 2, 3>>
  /\ heap[3].id # 0 /\ "version" \in DOMAIN heap[3].extra
  /\ heap[Get(heap, last.this, "object")].cls = "SubStatement"
  /\ heap[Get(heap, last.this, "object")].id = 0
  /\ "result" \in DOMAIN heap[Get(heap, last.this, "object")].extra
  /\ "version" \notin DOMAIN heap[Get(heap, last.this, "object")].extra

\* actor, verb and object are all present and the isValid() of each is true
BaseValid(h, a) ==
  \A slot \in {"actor", "verb", "object"} :
    Get(h, a, slot) # 0 /\ isValid(h, Get(h, a, slot)) = "T"

\* C4: SubStatement.isValid() is true exactly when the base validity holds, its
\* objectType is "SubStatement", its object's objectType is not, and none of
\* the four restricted fields is an own property.  So it is not true of a
\* SubStatement whose object is a SubStatement, nor of one that was assigned a
\* restricted field, nor is Statement.isValid() true of a Statement whose object
\* is a SubStatement of which isValid() is not true.
C4_SubStatementValidity ==
  /\ \A s \in SubStatements(heap) :
       /\ isValid(heap, s) = "T" <=>
            /\ BaseValid(heap, s)
            /\ heap[s].objectType = "SubStatement"
            /\ heap[Get(heap, s, "object")].objectType # "SubStatement"
            /\ heap[s].id = 0
            /\ \A f \in {"stored", "version", "authority"} : f \notin DOMAIN heap[s].extra
       /\ Get(heap, s, "object") \in SubStatements(heap) => isValid(heap, s) # "T"
  /\ last.op = "assignRestricted" => isValid(heap, last.this) # "T"
  /\ \A s \in Statements(heap) :
       /\ Get(heap, s, "object") \in SubStatements(heap)
       /\ isValid(heap, Get(heap, s, "object")) # "T"
       => isValid(heap, s) # "T"

\* an outer SubStatement of well-formed parts whose object is a SubStatement
\* that is valid itself: only the nesting makes the outer one invalid
C4_Witness ==
  /\ last.op = "SubStatement"
  /\ Get(heap, last.this, "object") \in SubStatements(heap)
  /\ isValid(heap, Get(heap, last.this, "object")) = "T"
  /\ isValid(heap, Get(heap, last.this, "actor")) = "T"
  /\ isValid(heap, Get(heap, last.this, "verb")) = "T"
  /\ isValid(heap, last.this) = "F"

TopStatements(h) == {a \in 1..Len(h) : h[a].cls = "Statement"}

\* C5: Statement.isValid() is truthy exactly when actor, verb and object are all
\* present and the isValid() of each is true, and it is a falsy value whenever
\* one of the three is missing.
C5_ValidIffParts ==
  \A s \in TopStatements(heap) :
    /\ isValid(heap, s) = "T" <=> BaseValid(heap, s)
    /\ (\E slot \in {"actor", "verb", "object"} : Get(heap, s, slot) = 0)
         => isValid(heap, s) = "F"

\* C6: whatever the input, absent or malformed, construction completes and the
\* isValid() that follows returns true or a falsy value: it does not throw.
C6_NeverThrows == Constructed => isValid(heap, last.this) \in {"T", "F"}

\* C7: the Statement constructor ends by assigning a freshly generated id: a
\* Statement built from a source (a Statement, or raw data carrying an id) has an
\* id different from the source's, the source's id is unchanged, and any two
\* Statement instances have different ids.
C7_FreshId ==
  [][last'.op = "Statement" /\ last'.n # last.n =>
       /\ last'.args[1] # 0 =>
            /\ heap'[last'.this].id # heap[last'.args[1]].id
            /\ heap'[last'.args[1]].id = heap[last'.args[1]].id
       /\ \A a, b \in TopStatements(heap') : a # b => heap'[a].id # heap'[b].id]_vars

\* a Statement just built from a whole Statement, which has its own id
C7_Witness ==
  /\ last.op = "Statement"
  /\ last.args[1] \in TopStatements(heap)
  /\ Get(heap, last.this, "actor") = Get(heap, last.args[1], "actor")
  /\ Get(heap, last.this, "actor") # 0
  /\ heap[last.args[1]].id > 0
  /\ heap[last.this].id > heap[last.args[1]].id

\* the first argument has non-empty actor, verb and object fields
Whole(h, x) ==
  x # 0 /\ \A slot \in {"actor", "verb", "object"} :
             slot \in DOMAIN h[x].props /\ h[x].props[slot] # 0

\* the value the constructor call recorded in last resolves into slot
Input(slot) ==
  IF Whole(heap, last.args[1]) THEN heap[last.args[1]].props[slot]
  ELSE CASE slot = "actor" -> last.args[1]
         [] slot = "verb" -> last.args[2]
         [] slot = "object" -> last.args[3]

ActorClassFor(tag) ==
  CASE tag \in {"Agent", ""} -> "Agent"
    [] tag = "Group" -> "Group"
    [] OTHER -> "raw"

ObjectClassFor(tag) ==
  CASE tag \in {"Activity", ""} -> "Activity"
    [] tag \in {"Agent", "Group", "StatementRef", "SubStatement"} -> tag
    [] OTHER -> "raw"

\* slot holds x itself when K is "raw", and else a new instance of K made of x
Dispatched(slot, x, K) ==
  LET v == Get(heap, last.this, slot)
  IN IF K = "raw" THEN v = x
     ELSE /\ v # x /\ v # 0
          /\ heap[v].cls = K
          /\ K # "SubStatement" => heap[v].data = heap[x].data /\ heap[v].objectType = K

\* C8: for a raw value the constructor picks the variant from objectType alone:
\* "Agent" or none gives an Agent and "Group" a Group for the actor; "Activity"
\* or none gives an Activity, and "Agent", "Group", "StatementRef",
\* "SubStatement" each its class for the object; any other objectType leaves
\* the raw value itself in the slot; no value leaves the slot empty.
C8_Dispatch ==
  Constructed =>
    /\ \A slot \in {"actor", "verb", "object"} :
         Input(slot) = 0 => Get(heap, last.this, slot) = 0
    /\ Input("actor") # 0 /\ heap[Input("actor")].cls = "Object" =>
         Dispatched("actor", Input("actor"), ActorClassFor(heap[Input("actor")].objectType))
    /\ Input("object") # 0 /\ heap[Input("object")].cls = "Object" =>
         Dispatched("object", Input("object"), ObjectClassFor(heap[Input("object")].objectType))

\* a raw object tagged "Agent" became an Agent in the object slot, and the same
\* literal an Agent in the actor slot
C8_Witness ==
  /\ last.op = "Statement" /\ last.args = <<1, 2, 1>>
  /\ heap[1].objectType = "Agent"
  /\ heap[Get(heap, last.this, "object")].cls = "Agent"
  /\ heap[Get(heap, last.this, "actor")].cls = "Agent"
  /\ Get(heap, last.this, "object") # 1

\* x is an instance of the variant its objectType selects for slot
Typed(h, slot, x) ==
  CASE slot = "actor" -> h[x].cls \in {"Agent", "Group"} /\ h[x].objectType = h[x].cls
    [] slot = "verb" -> h[x].cls = "Verb"
    [] slot = "object" ->
         /\ h[x].cls \in {"Activity", "Agent", "Group", "StatementRef", "SubStatement"}
         /\ h[x].objectType = h[x].cls

\* a value that is already typed goes into its slot as the same instance
SameInstance ==
  Constructed =>
    \A slot \in {"actor", "verb", "object"} :
      Input(slot) # 0 /\ Typed(heap, slot, Input(slot)) =>
        Get(heap, last.this, slot) = Input(slot)

\* b has the slots of a, and every other field of a but id
CloneOf(h, b, a) ==
  /\ h[b].props = h[a].props
  /\ h[b].extra = h[a].extra
  /\ h[b].objectType = h[a].objectType

\* C9 as stated: a value already typed is kept as the same instance, and a
\* Statement built from any Statement has that Statement's actor, verb and
\* object, and differs from it in id alone.
C9_EveryStatementClones ==
  [][/\ SameInstance'
     /\ last'.op = "Statement" /\ last'.n # last.n /\ last'.args[1] \in Statements(heap)
        => CloneOf(heap', last'.this, last'.args[1])]_vars

\* C9, amended: a value already typed is kept as the same instance, and a
\* Statement built from a Statement whose actor, verb and object are all present
\* and are the ones its own constructor put there has that Statement's actor,
\* verb and object, and differs from it in id alone.
C9_Idempotent ==
  [][/\ SameInstance'
     /\ /\ last'.op = "Statement" /\ last'.n # last.n
        /\ last'.args[1] \in Statements(heap)
        /\ last'.args[1] = last.this /\ last.op # "assign"
        /\ \A slot \in {"actor", "verb", "object"} : Get(heap, last.this, slot) # 0
        => CloneOf(heap', last'.this, last'.args[1])]_vars

\* a Statement built from a Statement that was itself built from a Statement
\* holding an Agent, a Verb and a typed object
C9_Witness ==
  /\ last.op = "Statement" /\ last.n = 3
  /\ last.args[1] \in TopStatements(heap)
  /\ CloneOf(heap, last.this, last.args[1])
  /\ heap[last.this].id # heap[last.args[1]].id
  /\ heap[Get(heap, last.this, "actor")].cls = "Agent"
  /\ heap[Get(heap, last.this, "verb")].cls = "Verb"
  /\ Typed(heap, "object", Get(heap, last.this, "object"))
  /\ \E a \in TopStatements(heap) :
       a < last.args[1] /\ CloneOf(heap, last.args[1], a)

\* v is what x resolves to: x itself, or a new variant instance made of x, or a
\* new SubStatement made of x
ResolvedFrom(h, v, x) ==
  IF x = 0 THEN v = 0
  ELSE \/ v = x
       \/ /\ v > x
          /\ h[v].cls \in {"Agent", "Group", "Verb", "Activity", "StatementRef"}
          /\ h[v].data = h[x].data
       \/ /\ v > x
          /\ h[v].cls = "SubStatement"
          /\ IF Whole(h, x) THEN h[v].data = h[x].data ELSE Get(h, v, "actor") = x

Dropped(K) == IF K = "SubStatement" THEN {"stored", "version", "authority"} ELSE {}

\* C10: when the first argument has non-empty actor, verb and object, its own
\* fields are on the new instance with the same values (but id and, on a
\* SubStatement, the fields it deletes and its objectType), its actor, verb and
\* object are the ones resolved into the slots, and the second and third
\* arguments are ignored; when it lacks one of the three, it is the actor
\* itself, none of its fields is copied, and verb and object come from the
\* second and third arguments.
C10_Overload ==
  Constructed =>
    LET x    == last.args[1]
        this == heap[last.this]
    IN IF Whole(heap, x)
       THEN /\ \A k \in DOMAIN heap[x].extra \ Dropped(last.op) :
                 k \in DOMAIN this.extra /\ this.extra[k] = heap[x].extra[k]
            /\ \A k \in DOMAIN heap[x].props \ {"actor", "verb", "object"} :
                 k \in DOMAIN this.props /\ this.props[k] = heap[x].props[k]
            /\ last.op = "Statement" => this.objectType = heap[x].objectType
            /\ \A slot \in {"actor", "verb", "object"} :
                 ResolvedFrom(heap, this.props[slot], heap[x].props[slot])
       ELSE /\ DOMAIN this.extra = {}
            /\ DOMAIN this.props = {"actor", "verb", "object"}
            /\ this.objectType = IF last.op = "SubStatement" THEN "SubStatement" ELSE ""
            /\ \A i \in 1..3 :
                 ResolvedFrom(heap, this.props[<<"actor", "verb", "object">>[i]], last.args[i])

\* a Statement built from the raw statement 3, which carries stored, timestamp
\* and a context, with a second and a third argument that are not its parts
C10_Witness ==
  /\ last.op = "Statement" /\ last.args = <<3, 1, 2>>
  /\ Whole(heap, 3)
  /\ "timestamp" \in DOMAIN heap[3].extra
  /\ heap[last.this].extra = heap[3].extra
  /\ Get(heap, last.this, "context") = 4
  /\ heap[Get(heap, last.this, "verb")].data = 2
  /\ heap[Get(heap, last.this, "object")].data = 1

=============================================================================
